---- MODULE Spec2Model ----
(***************************************************************************)
(* Twilio <-> OpenAI Realtime relay (realtime.py, ws_endpoint).            *)
(*                                                                         *)
(* One call is served by one asyncio event loop: the endpoint coroutine,   *)
(* the two pumps it gathers (twilio_to_openai, openai_to_twilio) and the   *)
(* debounce task commit_after_delay.  A step of the model is the code one  *)
(* coroutine runs between two suspension points (an await that can yield   *)
(* to the loop: receive_text, the websocket sends, asyncio.sleep).  A send *)
(* hands its message to the transport when it is called and may then stay  *)
(* suspended; it raises when the connection is no longer open.             *)
(***************************************************************************)
EXTENDS Integers, Sequences, FiniteSets, TLC

(***************************************************************************)
(* Bounds of the model (not program constants).                            *)
(***************************************************************************)
MaxDeltas == 2      \* audio deltas read by the outbound pump
TickMs == 225       \* granularity of the model's clock, in ms

(***************************************************************************)
(* Program constants.                                                      *)
(***************************************************************************)
SIGN_BIT == 128
QUANT_MASK == 15
BIAS == 132
silence_delay_ms == 450
FRAME_MS == 20
LOUD_MS_REQUIRED == 120
RMS_GATE == 7000

None == 0
StreamIds == { "ST1" }              \* streamSid values of the start event
RespIds == { 1, 2 }                 \* ids the conversation side gives its responses

(***************************************************************************)
(* mu-law decode.  b is a byte 0..255; the bit operations of the source    *)
(* are written arithmetically.                                             *)
(***************************************************************************)
Pow2(n) == IF n = 0 THEN 1
           ELSE IF n = 1 THEN 2
           ELSE IF n = 2 THEN 4
           ELSE IF n = 3 THEN 8
           ELSE IF n = 4 THEN 16
           ELSE IF n = 5 THEN 32
           ELSE IF n = 6 THEN 64
           ELSE 128

\* the decoder of G.711: the mantissa is shifted by 3
mulaw_byte_to_pcm16_g711(b0) ==
    LET b == 255 - b0
        sign == ((b \div SIGN_BIT) % 2) * SIGN_BIT
        exponent == (b \div 16) % 8
        mantissa == b % (QUANT_MASK + 1)
        magnitude == ((mantissa * 8) + BIAS) * Pow2(exponent)
        sample == magnitude - BIAS
    IN  IF sign # 0 THEN -sample ELSE sample

mulaw_byte_to_pcm16(b0) ==
    LET b == 255 - b0                            \* (~b) & 0xFF
        sign == ((b \div SIGN_BIT) % 2) * SIGN_BIT  \* b & SIGN_BIT
        exponent == (b \div 16) % 8              \* (b >> 4) & 0x07
        mantissa == b % (QUANT_MASK + 1)         \* b & QUANT_MASK
        magnitude == ((mantissa * 16) + BIAS) * Pow2(exponent)
        sample == magnitude - BIAS
    IN  IF sign # 0 THEN -sample ELSE sample

\* acc of rms_from_mulaw_bytes, divided by 16.  Every decoded sample is a
\* multiple of 4 ((mantissa << 4) + BIAS and BIAS are), so the division is
\* exact; it keeps the sum within the 32-bit integers of the checker, where
\* Python's integers do not overflow.
RECURSIVE SumSq16(_)
SumSq16(mu_bytes) ==
    IF mu_bytes = <<>> THEN 0
    ELSE LET s == mulaw_byte_to_pcm16(Head(mu_bytes))
         IN  (s \div 4) * (s \div 4) + SumSq16(Tail(mu_bytes))

\* frame_rms >= RMS_GATE, with frame_rms = (acc / n) ** 0.5 and 0.0 for an
\* empty frame: acc / n >= RMS_GATE ** 2, both sides divided by 16.
GateOpen(mu_bytes) ==
    /\ mu_bytes # <<>>
    /\ SumSq16(mu_bytes) >= (RMS_GATE * RMS_GATE * Len(mu_bytes) + 15) \div 16

\* the largest value of |sample| / 4
MaxRoot == (((QUANT_MASK * 16) + BIAS) * Pow2(7) - BIAS) \div 4

\* the integer part of the square root
Isqrt(n) == CHOOSE r \in 0..MaxRoot : r * r <= n /\ n < (r + 1) * (r + 1)

\* rms_from_mulaw_bytes: 0.0 for the empty frame, else (acc / n) ** 0.5, here
\* rounded down to a multiple of 4.  The value is exact when the rms is such a
\* multiple, as it is for a frame of one byte.
rms_from_mulaw_bytes(mu_bytes) ==
    IF mu_bytes = << >> THEN 0
    ELSE 4 * Isqrt(SumSq16(mu_bytes) \div Len(mu_bytes))

\* decoded payloads the telephony side sends in this model: empty, silence,
\* full scale, one loud byte, a loud and a quiet byte averaging below the gate
Payloads == { <<>>, <<255>>, <<0>>, <<159>>, <<159, 47>> }

VARIABLES
    main_pc,              \* position of ws_endpoint
    stream_sid,           \* None or the streamSid of the start event
    tw_conn,              \* telephony socket: open | gone (peer) | closed (by us)
    oa_conn,              \* conversation socket: none | open | gone | closed
    speaking, suppress_outbound, current_response_id,
    loud_ms_accum,
    commit_task,          \* none | sleeping | commit | resp | done | failed
    timer_left,           \* ms left of the debounce sleep
    in_pc,                \* position of twilio_to_openai
    in_exit,              \* why twilio_to_openai left its loop
    out_pc,               \* position of openai_to_twilio
    out_exit,             \* why openai_to_twilio left its loop
    tw_out,               \* media frames handed to the telephony socket, in order
    n_delta,              \* audio deltas read so far by the outbound pump
    dropped,              \* numbers of the deltas read while suppress_outbound
    gap,                  \* ms since the inbound pump last read a media frame
    gap_reached,          \* some gap between two media frames reached the window
    any_frame,            \* a media frame has been read
    timer_committed,      \* commit_after_delay has sent a commit
    hc_since_created,     \* hard_cancel fired and no response.created read since
    run_frames,           \* frames of the current unbroken run of frames at or
                          \* above the gate read while speaking, since the last
                          \* hard_cancel
    send_failed,          \* a send of a pump or of the debounce task has raised
    old_task,             \* the debounce task schedule_commit has replaced:
                          \* none | cancelled (CancelledError not yet delivered)
                          \* | its position when it still runs
    hc_msg,               \* the response.cancel message of the hard_cancel in
                          \* progress, << >> when none is
    c_pc,                 \* the decoder under test: idle | in | out
    c_byte,               \* the byte given to mulaw_byte_to_pcm16
    c_sample,             \* what mulaw_byte_to_pcm16 returned
    c_rms                 \* what rms_from_mulaw_bytes returned for the frame
                          \* made of that byte alone

vars == << main_pc, stream_sid, tw_conn, oa_conn, speaking, suppress_outbound,
           current_response_id, loud_ms_accum, commit_task, timer_left, in_pc,
           in_exit, out_pc, out_exit, tw_out, n_delta, dropped, gap, gap_reached,
           any_frame, timer_committed, hc_since_created, run_frames,
           send_failed, old_task, hc_msg, c_pc, c_byte, c_sample, c_rms >>

shared == << speaking, suppress_outbound, current_response_id, loud_ms_accum >>
timer == << commit_task, timer_left >>
inbound == << in_pc, in_exit >>
outbound == << out_pc, out_exit >>
conns == << tw_conn, oa_conn >>
main == << main_pc, stream_sid >>
ghost_in == << gap, gap_reached, any_frame, run_frames >>
ghost_out == << tw_out, n_delta, dropped >>
codec == << c_pc, c_byte, c_sample, c_rms >>

\* ws_endpoint is entered: the locals of the call
CallInit ==
    /\ main_pc = "start"
    /\ stream_sid = None
    /\ tw_conn = "open"
    /\ oa_conn = "none"
    /\ speaking = FALSE
    /\ suppress_outbound = FALSE
    /\ current_response_id = None
    /\ loud_ms_accum = 0
    /\ commit_task = "none"
    /\ timer_left = 0
    /\ in_pc = "init"
    /\ in_exit = "none"
    /\ out_pc = "init"
    /\ out_exit = "none"
    /\ tw_out = <<>>
    /\ n_delta = 0
    /\ dropped = {}
    /\ gap = 0
    /\ gap_reached = FALSE
    /\ any_frame = FALSE
    /\ timer_committed = FALSE
    /\ hc_since_created = FALSE
    /\ run_frames = 0
    /\ send_failed = FALSE
    /\ old_task = "none"
    /\ hc_msg = << >>

\* the decoder is not under test
CodecIdle ==
    /\ c_pc = "idle"
    /\ c_byte = 0
    /\ c_sample = 0
    /\ c_rms = 0

Init == CallInit /\ CodecIdle

OaUp == oa_conn = "open"
TwUp == tw_conn = "open"
Max(a, b) == IF a >= b THEN a ELSE b
Min(a, b) == IF a <= b THEN a ELSE b

(***************************************************************************)
(* ws_endpoint before the pumps: the start loop, connect_openai and the    *)
(* greeting.                                                               *)
(***************************************************************************)
StartKinds == { "start", "other", "malformed" }

\* one pass of `while stream_sid is None`: receive_text, json.loads, the test
\* of the event.  An exception here leaves ws_endpoint.
MainRecvStart(kind, sid) ==
    /\ main_pc = "start"
    /\ IF ~TwUp \/ kind = "malformed"
       THEN main_pc' = "raised" /\ UNCHANGED stream_sid
       ELSE IF kind = "start"
       THEN main_pc' = "connect" /\ stream_sid' = sid
       ELSE UNCHANGED main
    /\ UNCHANGED << conns, shared, timer, inbound, outbound, ghost_in, ghost_out,
                    timer_committed, hc_since_created, send_failed >>
    /\ UNCHANGED << old_task, hc_msg, codec >>

\* connect_openai: websockets.connect, then the session.update message
MainConnect(ok) ==
    /\ main_pc = "connect"
    /\ IF ok
       THEN main_pc' = "greet" /\ oa_conn' = "open"
       ELSE main_pc' = "raised" /\ oa_conn' = "gone"
    /\ UNCHANGED << stream_sid, tw_conn, shared, timer, inbound, outbound, ghost_in,
                    ghost_out, timer_committed, hc_since_created, send_failed >>
    /\ UNCHANGED << old_task, hc_msg, codec >>

\* send_greeting, then asyncio.gather starts the two pumps
MainGreet ==
    /\ main_pc = "greet"
    /\ IF OaUp
       THEN /\ main_pc' = "gather"
            /\ in_pc' = "recv"
            /\ out_pc' = "recv"
       ELSE /\ main_pc' = "raised"
            /\ UNCHANGED << in_pc, out_pc >>
    /\ UNCHANGED << stream_sid, conns, shared, timer, in_exit, out_exit, ghost_in,
                    ghost_out, timer_committed, hc_since_created, send_failed >>
    /\ UNCHANGED << old_task, hc_msg, codec >>

(***************************************************************************)
(* The debounce task.                                                      *)
(***************************************************************************)
\* schedule_commit: cancel the task that is not done, create a new one.  A
\* cancelled task gets CancelledError at the await it is suspended on and
\* returns; what it had handed to the socket stays sent.
TaskPending(pos) == pos \in { "sleeping", "commit", "resp" }

\* the replaced task is left to run
CancelNothing(pos) == pos

\* Task.cancel() on a task suspended at pos: CancelledError is thrown at its
\* await when the loop next runs it
Cancel(pos) == "cancelled"

schedule_commit ==
    /\ old_task' = IF TaskPending(commit_task) THEN Cancel(commit_task)
                   ELSE old_task
    /\ commit_task' = "sleeping"
    /\ timer_left' = silence_delay_ms

\* the replaced task runs again.  Cancelled, it catches CancelledError and
\* returns; a task nobody cancelled goes on with its sends.
OldTaskStep ==
    /\ old_task # "none"
    /\ old_task' = IF old_task = "cancelled" \/ ~OaUp THEN "none"
                   ELSE IF old_task = "sleeping" THEN "commit"
                   ELSE IF old_task = "commit" THEN "resp"
                   ELSE "none"
    /\ UNCHANGED << main, conns, shared, timer, inbound, outbound, ghost_in,
                    ghost_out, timer_committed, hc_since_created, send_failed,
                    hc_msg, codec >>

\* commit_after_delay: asyncio.sleep is over, send the commit
TimerFire ==
    /\ commit_task = "sleeping"
    /\ timer_left = 0
    /\ IF OaUp
       THEN /\ commit_task' = "commit"
            /\ timer_committed' = TRUE
            /\ UNCHANGED send_failed
       ELSE /\ commit_task' = "failed"
            /\ send_failed' = TRUE
            /\ UNCHANGED timer_committed
    /\ UNCHANGED << main, conns, shared, timer_left, inbound, outbound, ghost_in,
                    ghost_out, hc_since_created >>
    /\ UNCHANGED << old_task, hc_msg, codec >>

\* the commit send returns, send response.create
TimerRespond ==
    /\ commit_task = "commit"
    /\ IF OaUp
       THEN commit_task' = "resp" /\ UNCHANGED send_failed
       ELSE commit_task' = "failed" /\ send_failed' = TRUE
    /\ UNCHANGED << main, conns, shared, timer_left, inbound, outbound, ghost_in,
                    ghost_out, timer_committed, hc_since_created >>
    /\ UNCHANGED << old_task, hc_msg, codec >>

\* the response.create send returns, the task is done
TimerDone ==
    /\ commit_task = "resp"
    /\ IF OaUp
       THEN commit_task' = "done" /\ UNCHANGED send_failed
       ELSE commit_task' = "failed" /\ send_failed' = TRUE
    /\ UNCHANGED << main, conns, shared, timer_left, inbound, outbound, ghost_in,
                    ghost_out, timer_committed, hc_since_created >>
    /\ UNCHANGED << old_task, hc_msg, codec >>

\* time passes while the pumps run: the sleep of the debounce task runs down.
\* A cancelled task is ready to run (Task.cancel() has scheduled its wakeup),
\* and the loop runs what is ready before it waits again, so no time passes
\* before it has taken its CancelledError.
\* The gap is measured until one has reached the window.
Measuring == any_frame /\ ~gap_reached /\ gap < silence_delay_ms
Sleeping == commit_task = "sleeping" /\ timer_left > 0

Tick ==
    /\ in_pc # "init"
    /\ old_task # "cancelled"
    /\ (Sleeping \/ Measuring)
    /\ timer_left' = IF commit_task = "sleeping" THEN Max(0, timer_left - TickMs)
                     ELSE timer_left
    /\ gap' = IF any_frame /\ ~gap_reached THEN Min(silence_delay_ms, gap + TickMs)
              ELSE gap
    /\ UNCHANGED << main, conns, shared, commit_task, inbound, outbound,
                    gap_reached, any_frame, run_frames, ghost_out,
                    timer_committed, hc_since_created, send_failed >>
    /\ UNCHANGED << old_task, hc_msg, codec >>

(***************************************************************************)
(* twilio_to_openai, the inbound pump.                                     *)
(***************************************************************************)
\* a frame read while not speaking leaves the accumulator as it is
NextAccumSticky(spk, loud, acc) ==
    IF spk THEN (IF loud THEN acc + FRAME_MS ELSE 0) ELSE acc

\* a frame below the gate leaves the accumulator as it is
NextAccumLeaky(spk, loud, acc) ==
    IF spk THEN (IF loud THEN acc + FRAME_MS ELSE acc) ELSE 0

\* loud_ms_accum after the gate has looked at a frame
NextAccum(spk, loud, acc) ==
    IF spk THEN (IF loud THEN acc + FRAME_MS ELSE 0) ELSE 0

\* the threshold has to be exceeded, not reached
ThresholdExceeded(spk, loud, acc) ==
    spk /\ loud /\ acc > LOUD_MS_REQUIRED

\* `if loud_ms_accum >= LOUD_MS_REQUIRED`, reached only on a loud frame read
\* while speaking
ThresholdReached(spk, loud, acc) ==
    spk /\ loud /\ acc >= LOUD_MS_REQUIRED

\* hard_cancel assigns neither flag before its first send
HardCancelFlagsUnset == UNCHANGED << suppress_outbound, speaking >>

\* hard_cancel sets suppress_outbound and leaves speaking as it was
HardCancelFlagsKeepSpeaking ==
    /\ suppress_outbound' = TRUE
    /\ speaking' = speaking

\* hard_cancel leaves suppress_outbound as it was
HardCancelFlagsDeferred ==
    /\ suppress_outbound' = suppress_outbound
    /\ speaking' = FALSE

\* the response.cancel message always names a response
CancelMessageTargeted(id) == << "response.cancel", id >>

\* the response.cancel message: `if current_response_id:` names the response
CancelMessage(id) ==
    IF id # None THEN << "response.cancel", id >> ELSE << "response.cancel" >>

\* `current_response_id = None` at the end of hard_cancel, whatever the id
\* is by then and whatever the message named
ClearedId(id, msg) == None

\* what hard_cancel assigns before its first send
HardCancelFlags ==
    /\ suppress_outbound' = TRUE
    /\ speaking' = FALSE

\* a send raises in the loop: the exception is no WebSocketDisconnect, the
\* sends of the finally block raise as well and are swallowed, the pump ends
\* with the exception
PumpCrash ==
    /\ in_pc' = "done"
    /\ in_exit' = "error"
    /\ send_failed' = TRUE

\* the finally block: its commit is sent when the pump leaves the loop
EnterFinally(why) ==
    /\ in_exit' = why
    /\ IF OaUp
       THEN in_pc' = "final_commit" /\ UNCHANGED send_failed
       ELSE in_pc' = "done" /\ send_failed' = TRUE

CanRead == in_pc = "recv" /\ TwUp

\* what reading a media frame adds to the record of the run
FrameRead(loud, fire) ==
    /\ any_frame' = TRUE
    /\ gap' = 0
    /\ gap_reached' = (gap_reached \/ (any_frame /\ gap >= silence_delay_ms))
    /\ run_frames' = IF fire THEN 0
                     ELSE IF speaking /\ loud THEN run_frames + 1 ELSE 0

\* a media event below the threshold of the barge-in gate: the gate, then the
\* append
InRecvMedia(mu_bytes) ==
    /\ CanRead
    /\ LET loud == GateOpen(mu_bytes)
           acc == NextAccum(speaking, loud, loud_ms_accum)
       IN  /\ ~ThresholdReached(speaking, loud, acc)
           /\ FrameRead(loud, FALSE)
           /\ loud_ms_accum' = acc
           /\ IF OaUp
              THEN in_pc' = "append" /\ UNCHANGED << in_exit, send_failed >>
              ELSE PumpCrash
    /\ UNCHANGED << main, conns, speaking, suppress_outbound, current_response_id,
                    timer, outbound, ghost_out, timer_committed, hc_since_created >>
    /\ UNCHANGED << old_task, hc_msg, codec >>

\* a media event that takes loud_ms_accum to the threshold: hard_cancel up to
\* its first send (response.cancel, naming current_response_id when there is
\* one).  When that send raises, hard_cancel swallows it and returns, and the
\* append raises in turn.
InBargeIn(mu_bytes) ==
    /\ CanRead
    /\ LET loud == GateOpen(mu_bytes)
           acc == NextAccum(speaking, loud, loud_ms_accum)
       IN  /\ ThresholdReached(speaking, loud, acc)
           /\ FrameRead(loud, TRUE)
           /\ HardCancelFlags
           /\ hc_since_created' = TRUE
           /\ IF OaUp
              THEN /\ in_pc' = "hc_cancel"
                   /\ hc_msg' = CancelMessage(current_response_id)
                   /\ loud_ms_accum' = acc
                   /\ UNCHANGED << current_response_id, in_exit, send_failed >>
              ELSE /\ current_response_id' = None
                   /\ hc_msg' = << >>
                   /\ loud_ms_accum' = 0
                   /\ PumpCrash
    /\ UNCHANGED << main, conns, timer, outbound, ghost_out, timer_committed >>
    /\ UNCHANGED << old_task, codec >>

\* hard_cancel: the cancel send returns, send input_audio_buffer.clear
InHcClear ==
    /\ in_pc = "hc_cancel"
    /\ IF OaUp
       THEN /\ in_pc' = "hc_clear"
            /\ UNCHANGED << current_response_id, loud_ms_accum, in_exit,
                            send_failed, hc_msg >>
       ELSE /\ current_response_id' = None
            /\ hc_msg' = << >>
            /\ loud_ms_accum' = 0
            /\ PumpCrash
    /\ UNCHANGED << main, conns, speaking, suppress_outbound, timer, outbound,
                    ghost_in, ghost_out, timer_committed, hc_since_created >>
    /\ UNCHANGED << old_task, codec >>

\* hard_cancel returns: current_response_id = None, then loud_ms_accum = 0 and
\* the append of the frame that triggered it
InHcReturn ==
    /\ in_pc = "hc_clear"
    /\ current_response_id' = ClearedId(current_response_id, hc_msg)
    /\ hc_msg' = << >>
    /\ loud_ms_accum' = 0
    /\ IF OaUp
       THEN in_pc' = "append" /\ UNCHANGED << in_exit, send_failed >>
       ELSE PumpCrash
    /\ UNCHANGED << main, conns, speaking, suppress_outbound, timer, outbound,
                    ghost_in, ghost_out, timer_committed, hc_since_created >>
    /\ UNCHANGED << old_task, codec >>

\* the append send returns: schedule_commit, back to receive_text
InAppendDone ==
    /\ in_pc = "append"
    /\ IF OaUp
       THEN /\ schedule_commit
            /\ in_pc' = "recv"
            /\ UNCHANGED << in_exit, send_failed >>
       ELSE PumpCrash /\ UNCHANGED << timer, old_task >>
    /\ UNCHANGED << main, conns, shared, outbound, ghost_in, ghost_out,
                    timer_committed, hc_since_created >>
    /\ UNCHANGED << hc_msg, codec >>

\* an event that is neither media nor stop
InRecvOther ==
    /\ CanRead
    /\ UNCHANGED vars

BadKinds == { "badjson", "nopayload" }

\* a message json.loads rejects, or a media event without media.payload: the
\* exception is not caught by `except WebSocketDisconnect`
InRecvMalformed(kind) ==
    /\ CanRead
    /\ kind \in BadKinds
    /\ EnterFinally("error")
    /\ UNCHANGED << main, conns, shared, timer, outbound, ghost_in, ghost_out,
                    timer_committed, hc_since_created >>
    /\ UNCHANGED << old_task, hc_msg, codec >>

\* the stop event: break
InRecvStop ==
    /\ CanRead
    /\ EnterFinally("stop")
    /\ UNCHANGED << main, conns, shared, timer, outbound, ghost_in, ghost_out,
                    timer_committed, hc_since_created >>
    /\ UNCHANGED << old_task, hc_msg, codec >>

\* receive_text raises WebSocketDisconnect
InRecvDisconnect ==
    /\ in_pc = "recv"
    /\ ~TwUp
    /\ EnterFinally("disconnect")
    /\ UNCHANGED << main, conns, shared, timer, outbound, ghost_in, ghost_out,
                    timer_committed, hc_since_created >>
    /\ UNCHANGED << old_task, hc_msg, codec >>

\* finally: the commit send returns, send response.create
InFinalRespond ==
    /\ in_pc = "final_commit"
    /\ IF OaUp
       THEN in_pc' = "final_resp" /\ UNCHANGED send_failed
       ELSE in_pc' = "done" /\ send_failed' = TRUE
    /\ UNCHANGED << main, conns, shared, timer, in_exit, outbound, ghost_in,
                    ghost_out, timer_committed, hc_since_created >>
    /\ UNCHANGED << old_task, hc_msg, codec >>

\* finally: the response.create send returns, the pump is over
InFinalDone ==
    /\ in_pc = "final_resp"
    /\ in_pc' = "done"
    /\ send_failed' = (send_failed \/ ~OaUp)
    /\ UNCHANGED << main, conns, shared, timer, in_exit, outbound, ghost_in,
                    ghost_out, timer_committed, hc_since_created >>
    /\ UNCHANGED << old_task, hc_msg, codec >>

(***************************************************************************)
(* openai_to_twilio, the outbound pump.                                    *)
(***************************************************************************)
CanListen == out_pc = "recv" /\ OaUp

\* the outbound pump forwards whatever the flag says
ForwardAlways == TRUE

\* `if not suppress_outbound`
ForwardAllowed == ~suppress_outbound

\* every media event names the same stream
MediaFrameFixedSid(sid, delta) == [streamSid |-> "ST1", payload |-> delta]

\* the media event sent to the telephony side for one audio delta
MediaFrame(sid, delta) == [streamSid |-> sid, payload |-> delta]

\* any exception in the loop is caught by `except Exception`: the pump ends
OutCrash ==
    /\ out_pc' = "done"
    /\ out_exit' = "error"

\* response.created: allow outbound again, record the id (None when absent)
OutRecvCreated(id) ==
    /\ CanListen
    /\ suppress_outbound' = FALSE
    /\ current_response_id' = id
    /\ hc_since_created' = FALSE
    /\ UNCHANGED << main, conns, speaking, loud_ms_accum, timer, inbound, outbound,
                    ghost_in, ghost_out, timer_committed, send_failed >>
    /\ UNCHANGED << old_task, hc_msg, codec >>

\* response.output_audio.delta; its payload is modelled by the number of the
\* delta, so payloads are distinct and ordered as they are read
OutRecvDelta(has_audio) ==
    /\ CanListen
    /\ n_delta < MaxDeltas
    /\ n_delta' = n_delta + 1
    /\ dropped' = IF suppress_outbound THEN dropped \cup { n_delta + 1 } ELSE dropped
    /\ IF ForwardAllowed /\ has_audio
       THEN /\ speaking' = TRUE
            /\ IF TwUp
               THEN /\ tw_out' = Append(tw_out, MediaFrame(stream_sid, n_delta + 1))
                    /\ out_pc' = "fwd"
                    /\ UNCHANGED << out_exit, send_failed >>
               ELSE /\ OutCrash
                    /\ send_failed' = TRUE
                    /\ UNCHANGED tw_out
       ELSE UNCHANGED << speaking, tw_out, outbound, send_failed >>
    /\ UNCHANGED << main, conns, suppress_outbound, current_response_id,
                    loud_ms_accum, timer, inbound, ghost_in, timer_committed,
                    hc_since_created >>
    /\ UNCHANGED << old_task, hc_msg, codec >>

\* send_text returns
OutFwdDone ==
    /\ out_pc = "fwd"
    /\ IF TwUp
       THEN out_pc' = "recv" /\ UNCHANGED << out_exit, send_failed >>
       ELSE OutCrash /\ send_failed' = TRUE
    /\ UNCHANGED << main, conns, shared, timer, inbound, ghost_in, ghost_out,
                    timer_committed, hc_since_created >>
    /\ UNCHANGED << old_task, hc_msg, codec >>

\* response.output_audio.done: send input_audio_buffer.clear
OutRecvDone ==
    /\ CanListen
    /\ speaking' = FALSE
    /\ current_response_id' = None
    /\ out_pc' = "clear"
    /\ UNCHANGED << main, conns, suppress_outbound, loud_ms_accum, timer, inbound,
                    out_exit, ghost_in, ghost_out, timer_committed, hc_since_created,
                    send_failed >>
    /\ UNCHANGED << old_task, hc_msg, codec >>

\* the clear send returns
OutClearDone ==
    /\ out_pc = "clear"
    /\ IF OaUp
       THEN out_pc' = "recv" /\ UNCHANGED << out_exit, send_failed >>
       ELSE OutCrash /\ send_failed' = TRUE
    /\ UNCHANGED << main, conns, shared, timer, inbound, ghost_in, ghost_out,
                    timer_committed, hc_since_created >>
    /\ UNCHANGED << old_task, hc_msg, codec >>

\* an event of any other type
OutRecvOther ==
    /\ CanListen
    /\ UNCHANGED vars

\* a message json.loads rejects
OutRecvMalformed ==
    /\ CanListen
    /\ OutCrash
    /\ UNCHANGED << main, conns, shared, timer, inbound, ghost_in, ghost_out,
                    timer_committed, hc_since_created, send_failed >>
    /\ UNCHANGED << old_task, hc_msg, codec >>

\* the conversation socket is closed: `async for` ends
OutStreamEnd ==
    /\ out_pc = "recv"
    /\ ~OaUp
    /\ out_pc' = "done"
    /\ out_exit' = "closed"
    /\ UNCHANGED << main, conns, shared, timer, inbound, ghost_in, ghost_out,
                    timer_committed, hc_since_created, send_failed >>
    /\ UNCHANGED << old_task, hc_msg, codec >>

(***************************************************************************)
(* ws_endpoint after asyncio.gather, and the two peers.                    *)
(***************************************************************************)
\* gather re-raises the exception of twilio_to_openai as soon as that pump
\* ends; the other pump is left running and the cleanup is not reached
MainGatherRaise ==
    /\ main_pc = "gather"
    /\ in_pc = "done"
    /\ in_exit = "error"
    /\ main_pc' = "raised"
    /\ UNCHANGED << stream_sid, conns, shared, timer, inbound, outbound, ghost_in,
                    ghost_out, timer_committed, hc_since_created, send_failed >>
    /\ UNCHANGED << old_task, hc_msg, codec >>

\* gather returns when both pumps have returned: openai_ws.close()
MainCleanup ==
    /\ main_pc = "gather"
    /\ in_pc = "done"
    /\ in_exit # "error"
    /\ out_pc = "done"
    /\ main_pc' = "closing"
    /\ oa_conn' = "closed"
    /\ UNCHANGED << stream_sid, tw_conn, shared, timer, inbound, outbound, ghost_in,
                    ghost_out, timer_committed, hc_since_created, send_failed >>
    /\ UNCHANGED << old_task, hc_msg, codec >>

\* twilio_ws.close()
MainCleanupTwilio ==
    /\ main_pc = "closing"
    /\ main_pc' = "done"
    /\ tw_conn' = "closed"
    /\ UNCHANGED << stream_sid, oa_conn, shared, timer, inbound, outbound, ghost_in,
                    ghost_out, timer_committed, hc_since_created, send_failed >>
    /\ UNCHANGED << old_task, hc_msg, codec >>

\* the caller hangs up / the telephony connection drops
TwilioDisconnect ==
    /\ TwUp
    /\ main_pc \in { "start", "connect", "greet", "gather" }
    /\ tw_conn' = "gone"
    /\ UNCHANGED << main, oa_conn, shared, timer, inbound, outbound, ghost_in,
                    ghost_out, timer_committed, hc_since_created, send_failed >>
    /\ UNCHANGED << old_task, hc_msg, codec >>

\* the conversation service closes or the connection drops
OpenAIClose ==
    /\ OaUp
    /\ oa_conn' = "gone"
    /\ UNCHANGED << main, tw_conn, shared, timer, inbound, outbound, ghost_in,
                    ghost_out, timer_committed, hc_since_created, send_failed >>
    /\ UNCHANGED << old_task, hc_msg, codec >>

\* the steps every call can take: the start of the call, the frames and the
\* end of the telephony stream, the end of the call
Common ==
    \/ \E kind \in StartKinds, sid \in StreamIds : MainRecvStart(kind, sid)
    \/ \E ok \in BOOLEAN : MainConnect(ok)
    \/ MainGreet
    \/ \E mu_bytes \in Payloads : InRecvMedia(mu_bytes)
    \/ InAppendDone
    \/ InRecvOther
    \/ \E kind \in BadKinds : InRecvMalformed(kind)
    \/ InRecvStop
    \/ InRecvDisconnect
    \/ InFinalRespond
    \/ InFinalDone
    \/ OutRecvDone
    \/ OutClearDone
    \/ OutRecvOther
    \/ OutRecvMalformed
    \/ OutStreamEnd
    \/ MainGatherRaise
    \/ MainCleanup
    \/ MainCleanupTwilio
    \/ TwilioDisconnect
    \/ OpenAIClose

\* the assistant's audio and the barge-in
Speech ==
    \/ \E mu_bytes \in Payloads : InBargeIn(mu_bytes)
    \/ InHcClear
    \/ InHcReturn
    \/ \E id \in RespIds \cup { None } : OutRecvCreated(id)
    \/ \E has_audio \in BOOLEAN : OutRecvDelta(has_audio)
    \/ OutFwdDone

\* the passing of time and the debounce task
Debounce ==
    \/ Tick
    \/ TimerFire
    \/ TimerRespond
    \/ TimerDone
    \/ OldTaskStep

Next == Common \/ Speech \/ Debounce

Spec == Init /\ [][Next]_vars

\* The call while no debounce sleep runs out: the telephony side keeps its
\* frames coming faster than silence_delay_ms.
NextGate == Common \/ Speech

SpecGate == Init /\ [][NextGate]_vars

\* The call while the conversation side sends no audio: speaking stays false
\* and the barge-in gate stays shut.
NextTurn == Common \/ Debounce

SpecTurn == Init /\ [][NextTurn]_vars

\* The call with a second stream identifier the start event can carry, while
\* no debounce sleep runs out.
StartOther == \E kind \in StartKinds : MainRecvStart(kind, "ST2")

NextSid == NextGate \/ StartOther

SpecSid == Init /\ [][NextSid]_vars

(***************************************************************************)
(* Vocabulary of the properties.                                           *)
(***************************************************************************)
(* The decoder on its own: every byte is decoded once, alone in its frame. *)
(***************************************************************************)
Bytes == 0..255

CodecInit ==
    /\ CallInit
    /\ c_pc = "in"
    /\ c_byte \in Bytes
    /\ c_sample = 0
    /\ c_rms = 0

\* mulaw_byte_to_pcm16(b) and rms_from_mulaw_bytes(bytes([b]))
Decode ==
    /\ c_pc = "in"
    /\ c_pc' = "out"
    /\ c_sample' = mulaw_byte_to_pcm16(c_byte)
    /\ c_rms' = rms_from_mulaw_bytes(<< c_byte >>)
    /\ UNCHANGED << main, conns, shared, timer, inbound, outbound, ghost_in,
                    ghost_out, timer_committed, hc_since_created, send_failed,
                    old_task, hc_msg, c_byte >>

NextCodec == Decode

SpecCodec == CodecInit /\ [][NextCodec]_vars

(***************************************************************************)
\* the inbound pump reads a media frame
ReadsFrame == \E mu_bytes \in Payloads : InRecvMedia(mu_bytes) \/ InBargeIn(mu_bytes)

\* hard_cancel is invoked
HardCancelInvoked == \E mu_bytes \in Payloads : InBargeIn(mu_bytes)

\* commit_after_delay hands its commit to the conversation socket
TimerSendsCommit == commit_task = "sleeping" /\ commit_task' = "commit"

\* some coroutine hands a message to the conversation socket
SendsUpstream ==
    \/ in_pc' # in_pc /\ in_pc' \in { "append", "hc_cancel", "hc_clear",
                                      "final_commit", "final_resp" }
    \/ commit_task' # commit_task /\ commit_task' \in { "commit", "resp" }
    \/ out_pc' # out_pc /\ out_pc' = "clear"

\* a step the program takes without a further event from either peer: a send
\* or a sleep that returns, a receive on a connection that is gone, gather
\* and the cleanup
ProgramStep ==
    \/ TimerFire \/ TimerRespond \/ TimerDone \/ OldTaskStep
    \/ (Sleeping /\ Tick)
    \/ InHcClear \/ InHcReturn \/ InAppendDone \/ InRecvDisconnect
    \/ InFinalRespond \/ InFinalDone
    \/ OutFwdDone \/ OutClearDone \/ OutStreamEnd
    \/ MainGatherRaise \/ MainCleanup \/ MainCleanupTwilio

\* the program waits: only an event of a peer can make it move
Waiting == ~ENABLED ProgramStep

BothClosed == tw_conn # "open" /\ oa_conn # "open"

(***************************************************************************)
(* Properties.                                                             *)
(***************************************************************************)
\* C1: once the stop event has been handled (the inbound pump has sent its
\* final commit and response request and has returned), the debounce timer
\* that was pending is out of the way: it never sends a commit of its own, so
\* the final commit is the only one sent for that stop.
C1_StopCancelsTimer ==
    [][(in_exit = "stop" /\ in_pc = "done") => ~TimerSendsCommit]_vars

\* C2: after hard_cancel has fired and until the outbound pump has read a
\* response.created, no step hands a media frame to the telephony socket.
C2_SuppressedUntilCreated == [][hc_since_created => tw_out' = tw_out]_vars

\* C2 witness: an audio delta was read and dropped while hard_cancel was
\* suspended on its first send.
C2_Witness ==
    /\ in_pc = "hc_cancel"
    /\ hc_since_created
    /\ n_delta \in dropped

\* C3: as long as no gap between two media frames has reached the debounce
\* window, the timer has sent no commit when a frame of the run is read, and
\* it sends at most one commit.
C3_OneCommitAfterRun ==
    [][ /\ (ReadsFrame /\ ~gap_reached') => ~timer_committed
        /\ (TimerSendsCommit /\ ~gap_reached) => ~timer_committed ]_vars

\* C4: hard_cancel is invoked only on a frame that completes an unbroken run
\* of frames at or above the gate, read while speaking, whose durations add
\* up to LOUD_MS_REQUIRED; a run that a frame below the gate has cut short
\* never invokes it.
C4_NoCancelBelowThreshold ==
    [][(in_pc = "recv" /\ in_pc' # "recv" /\ HardCancelInvoked) =>
           (run_frames + 1) * FRAME_MS >= LOUD_MS_REQUIRED]_vars

\* C4 witness: the assistant is speaking, the run has accumulated one frame
\* less than the threshold and hard_cancel has not been invoked.
C4_Witness ==
    /\ speaking
    /\ loud_ms_accum = LOUD_MS_REQUIRED - FRAME_MS
    /\ in_pc = "recv"
    /\ ~hc_since_created

\* C5: hard_cancel is invoked exactly on the 6th frame of an unbroken run of
\* frames at or above the gate read while speaking; the step that invokes it
\* sets suppress_outbound and clears speaking, so both hold before a further
\* frame is read; loud_ms_accum is zero once hard_cancel has returned.  (A step
\* that reads a frame takes the inbound pump out of its receive.)
C5_CancelOnSixthFrame ==
    [][ /\ (in_pc = "recv" /\ in_pc' # "recv") =>
              /\ \A mu_bytes \in Payloads :
                    (InRecvMedia(mu_bytes) \/ InBargeIn(mu_bytes)) =>
                        (InBargeIn(mu_bytes) <=>
                           (speaking /\ GateOpen(mu_bytes) /\ run_frames + 1 = 6))
              /\ HardCancelInvoked =>
                    /\ suppress_outbound' /\ ~speaking'
                    /\ in_pc' # "hc_cancel" => loud_ms_accum' = 0
        /\ (in_pc \in { "hc_cancel", "hc_clear" }
               /\ in_pc' \notin { "hc_cancel", "hc_clear" }) => loud_ms_accum' = 0
        /\ in_pc' = "recv" => loud_ms_accum' < LOUD_MS_REQUIRED ]_vars

\* C5 witness: the 6th frame of the run has invoked hard_cancel, which is
\* suspended on its first send with the flags set.
C5_Witness ==
    /\ in_pc = "hc_cancel"
    /\ suppress_outbound
    /\ ~speaking
    /\ loud_ms_accum = LOUD_MS_REQUIRED
    /\ run_frames = 0

\* C6: once the telephony side has reported its end (stop or disconnect) no
\* media frame is handed to its socket, and once the conversation stream has
\* ended no message is handed to the conversation socket.
C6_NoSendAfterTermination ==
    [][ /\ in_exit \in { "stop", "disconnect" } => tw_out' = tw_out
        /\ out_exit = "closed" => ~SendsUpstream ]_vars

\* C7: when a pump has ended, the session is torn down without a further
\* event of the peer that is still connected: whenever the program can only
\* wait for such an event, the other pump has ended too and both connections
\* are closed.
C7_TeardownOnPumpEnd ==
    ((in_pc = "done" \/ out_pc = "done") /\ Waiting) =>
        (in_pc = "done" /\ out_pc = "done" /\ BothClosed)

\* C8: a send that raised is fatal: whenever the program can only wait for an
\* event of a peer after a send of a pump or of the debounce task has raised,
\* both pumps have ended and both connections are closed.
C8_SendFailureFatal ==
    (send_failed /\ Waiting) =>
        (in_pc = "done" /\ out_pc = "done" /\ BothClosed)

\* C9: a malformed event is a no-op: the pump that read it goes back to its
\* receive, and the speaking state and the timer are unchanged.
C9_MalformedIsNoOp ==
    [][ /\ (\E kind \in BadKinds : InRecvMalformed(kind)) =>
               (in_pc' = "recv" /\ UNCHANGED << shared, timer >>)
        /\ OutRecvMalformed =>
               (out_pc' = "recv" /\ UNCHANGED << shared, timer >>) ]_vars

\* C10: the media frames handed to the telephony socket carry the audio
\* deltas in the order they were read, and no delta read while
\* suppress_outbound was set is among them.
C10_InOrderNeverLate ==
    /\ \A i, j \in 1..Len(tw_out) : i < j => tw_out[i].payload < tw_out[j].payload
    /\ \A i \in 1..Len(tw_out) : tw_out[i].payload \notin dropped

\* C10 witness: the first delta was forwarded, the second was read while
\* suppressed and is not on the wire.
C10_Witness ==
    /\ Len(tw_out) = 1
    /\ tw_out[1].payload = 1
    /\ dropped = { 2 }

\* bit i of byte b
Bit(b, i) == (b \div Pow2(i)) % 2

\* the reference expansion, read bit by bit: every bit is inverted, bit 7 is
\* the sign, bits 4..6 the exponent, bits 0..3 the mantissa
Reference(b) ==
    LET inv(i) == 1 - Bit(b, i)
        mantissa == inv(0) + 2 * inv(1) + 4 * inv(2) + 8 * inv(3)
        exponent == inv(4) + 2 * inv(5) + 4 * inv(6)
        sample == ((16 * mantissa) + BIAS) * Pow2(exponent) - BIAS
    IN  IF inv(7) = 1 THEN 0 - sample ELSE sample

Abs(x) == IF x < 0 THEN 0 - x ELSE x

\* C12: for every byte 0..255 the decoded sample is the reference expansion
\* of the byte, and the loudness of the frame made of that byte alone is the
\* absolute value of the sample.
C12_DecodeIsReference ==
    c_pc = "out" => (c_sample = Reference(c_byte) /\ c_rms = Abs(c_sample))

\* C12 witness: byte 0 has been decoded: the sign is set, the sample is
\* negative and the loudness is its absolute value.
C12_Witness ==
    /\ c_pc = "out"
    /\ c_byte = 0
    /\ c_sample < 0
    /\ c_rms = 0 - c_sample

\* C20: for every byte 0..255 the decoded sample fits a signed 16-bit
\* integer.
C20_FitsInt16 ==
    c_pc = "out" => (c_sample >= -32768 /\ c_sample <= 32767)

\* C11: every media frame handed to the telephony socket carries the
\* streamSid of the start event; while the start event has not been read no
\* frame has been sent and the conversation session is not open.
C11_FramesCarryStreamSid ==
    /\ \A i \in 1..Len(tw_out) :
          main_pc # "start" /\ tw_out[i].streamSid = stream_sid
    /\ main_pc = "start" => (tw_out = << >> /\ oa_conn = "none")

\* C11 witness: the start event carried the second identifier and a frame
\* tagged with it has been sent.
C11_Witness ==
    /\ Len(tw_out) = 1
    /\ tw_out[1].streamSid = "ST2"

\* the replaced task hands a message to the conversation socket
OldTaskSends ==
    /\ old_task \in { "sleeping", "commit" }
    /\ old_task' \in { "commit", "resp" }
    /\ old_task' # old_task

\* C13: a debounce task that schedule_commit has replaced never sends a
\* commit or a response request afterwards, whatever position it was replaced
\* at: only commit_task can still emit a commit.
C13_ReplacedTimerSilent == [][~OldTaskSends]_vars

\* C13 witness: a task that had sent its commit has been replaced by a new
\* sleeping task and has not yet run to take its CancelledError.
C13_Witness ==
    /\ old_task = "cancelled"
    /\ commit_task = "sleeping"
    /\ timer_committed
    /\ in_pc = "recv"

\* C14: while the conversation socket is open, a debounce task that has sent
\* its commit goes on to send response.create: it does not leave that
\* position in any other way.
C14_CommitThenResponse ==
    [][(commit_task = "commit" /\ OaUp) => commit_task' \in { "commit", "resp" }]_vars

\* C15: the step that detects the threshold sets suppress_outbound and clears
\* speaking before the first send of hard_cancel is made, and the outbound
\* pump examines and forwards nothing within that step.
C15_FlagsSetWithThreshold ==
    [][ /\ (in_pc = "recv" /\ in_pc' # "recv" /\ HardCancelInvoked) =>
              /\ suppress_outbound' /\ ~speaking'
              /\ UNCHANGED << ghost_out, outbound >>
        /\ (hc_msg = << >> /\ hc_msg' # << >>) =>
              (suppress_outbound' /\ ~speaking') ]_vars

\* C15 witness: hard_cancel is suspended on its first send with the flags
\* set, while the outbound pump is in the middle of forwarding a delta.
C15_Witness ==
    /\ in_pc = "hc_cancel"
    /\ suppress_outbound
    /\ ~speaking
    /\ out_pc = "fwd"

\* C16: hard_cancel names the recorded response in its cancel and sends an
\* untargeted cancel when none is recorded; while the conversation socket is
\* open its steps end neither pump, and when it has returned the frame that
\* invoked it is appended.
C16_CancelIsSafe ==
    [][ /\ (hc_msg = << >> /\ hc_msg' # << >>) =>
              hc_msg' = IF current_response_id = None
                        THEN << "response.cancel" >>
                        ELSE << "response.cancel", current_response_id >>
        /\ (in_pc \in { "hc_cancel", "hc_clear" } /\ in_pc' # in_pc /\ OaUp) =>
              /\ in_pc' = IF in_pc = "hc_cancel" THEN "hc_clear" ELSE "append"
              /\ in_exit' = "none"
              /\ UNCHANGED outbound ]_vars

\* C16 witness: hard_cancel found no recorded id and is suspended on its
\* untargeted cancel.
C16_Witness ==
    /\ in_pc = "hc_cancel"
    /\ hc_msg = << "response.cancel" >>
    /\ OaUp

\* the response a cancel message names, None for the untargeted cancel
Target(msg) == IF Len(msg) = 2 THEN msg[2] ELSE None

\* C17: when hard_cancel returns, an id recorded for another response than
\* the one its cancel named stays recorded.
C17_ClearsOnlyCancelledId ==
    [][ (in_pc = "hc_clear" /\ in_pc' # "hc_clear" /\ OaUp
           /\ current_response_id # None
           /\ current_response_id # Target(hc_msg)) =>
            current_response_id' = current_response_id ]_vars

\* C18: suppress_outbound and speaking are never both true.
C18_NotSpeakingWhileSuppressed == ~(suppress_outbound /\ speaking)

\* C18 witness: hard_cancel has returned, a delta was read and dropped under
\* suppression, and speaking stayed false.
C18_Witness ==
    /\ suppress_outbound
    /\ ~speaking
    /\ in_pc = "recv"
    /\ n_delta \in dropped

\* C19: once the gate has dealt with a media frame, loud_ms_accum is a
\* multiple of FRAME_MS, at least 0 and below LOUD_MS_REQUIRED; it is zero
\* when the frame was read while not speaking.
C19_AccumulatorRange ==
    [][ /\ in_pc' \in { "append", "recv" } =>
              /\ loud_ms_accum' % FRAME_MS = 0
              /\ loud_ms_accum' >= 0
              /\ loud_ms_accum' < LOUD_MS_REQUIRED
        /\ (in_pc = "recv" /\ in_pc' # "recv" /\ ~speaking /\ ReadsFrame) =>
              loud_ms_accum' = 0 ]_vars

\* C19 witness: the frame being appended has taken the accumulator to one
\* frame below the threshold.
C19_Witness ==
    /\ in_pc = "append"
    /\ speaking
    /\ loud_ms_accum = LOUD_MS_REQUIRED - FRAME_MS

====
